---------------------------- MODULE Spec2Model ----------------------------
(***************************************************************************)
(* Model of studyplot.py: the duration parser, the session loader with its *)
(* daily aggregation and rolling means, and the weekday x half-hour        *)
(* density walk.                                                           *)
(*                                                                         *)
(* Strings are sequences of one-character strings.  A timestamp is the     *)
(* number of seconds since Monday 2024-01-01 00:00:00; a timedelta is a    *)
(* number of seconds.  A float is a fraction [num, den]; den = 0 is NaN.   *)
(*                                                                         *)
(* Three specifications follow the script: SpecParse runs parse_duration   *)
(* on one token; Spec runs lines 25-55 on a file (the plotting calls of    *)
(* lines 57-90 change none of the values and are left out); SpecWalk runs  *)
(* lines 96-133 on a frame of sessions, SpecWalkFair with the script never *)
(* stopping midway.                                                        *)
(***************************************************************************)
EXTENDS Integers, Sequences, FiniteSets, TLC

VARIABLES
    pc,                 \* position in the script
    err,                \* the exception that ended the run, "none" if none
    (* parse_duration *)
    units,              \* the units the token under test was written from
    duration_str,       \* the token handed to parse_duration
    parsed,             \* what parse_duration returned (seconds)
    (* loader, daily aggregation, rolling means *)
    data,               \* file.readlines()
    line_no,            \* the line the for loop is at (1-based)
    records,            \* the list of accepted records
    locals,             \* the names bound so far in analyze_study_data
    study_per_day,      \* Series: timedelta per day
    study_per_day_hours,\* Series: hours per day
    moving_avg_7d,
    moving_avg_30d,
    (* density walk *)
    df,                 \* the rows of the DataFrame the walk starts from
    x_months_ago,       \* the cutoff
    df_recent,
    row,                \* the row df_recent.iterrows() is at (1-based)
    start_time,
    end_time,
    seg_end,
    cursor,
    heat,               \* the count matrix, heat[weekday][bin]
    heat_avg            \* the matrix after lines 125-133

vars == <<pc, err, units, duration_str, parsed, data, line_no, records, locals,
          study_per_day, study_per_day_hours, moving_avg_7d, moving_avg_30d,
          df, x_months_ago, df_recent, row, start_time, end_time, seg_end,
          cursor, heat, heat_avg>>

parseVars == <<units, duration_str, parsed>>
loadVars == <<data, line_no, records, locals, study_per_day,
              study_per_day_hours, moving_avg_7d, moving_avg_30d>>
walkVars == <<df, x_months_ago, df_recent, row, start_time, end_time,
              seg_end, cursor, heat, heat_avg>>

---------------------------------------------------------------------------
(* Strings *)

Digits == <<"0", "1", "2", "3", "4", "5", "6", "7", "8", "9">>

Whitespace == {" ", "\n"}

\* c in s
Contains(s, c) == \E i \in 1..Len(s) : s[i] = c

\* index of the first c in s (s contains c)
FirstIndex(s, c) == CHOOSE i \in 1..Len(s) : s[i] = c /\ \A j \in 1..(i-1) : s[j] # c

\* s.split(c): the pieces between the occurrences of c, all of them
RECURSIVE Split(_, _)
Split(s, c) ==
    IF ~Contains(s, c) THEN <<s>>
    ELSE LET i == FirstIndex(s, c)
         IN  <<SubSeq(s, 1, i - 1)>> \o Split(SubSeq(s, i + 1, Len(s)), c)

\* s.strip(): leading and trailing whitespace removed
RECURSIVE Strip(_)
Strip(s) ==
    IF s = <<>> THEN s
    ELSE IF s[1] \in Whitespace THEN Strip(Tail(s))
    ELSE IF s[Len(s)] \in Whitespace THEN Strip(SubSeq(s, 1, Len(s) - 1))
    ELSE s

DigitValue(c) == (CHOOSE i \in 1..10 : Digits[i] = c) - 1

IsDigit(c) == \E i \in 1..10 : Digits[i] = c

RECURSIVE DecimalValue(_)
DecimalValue(s) ==
    IF s = <<>> THEN 0
    ELSE 10 * DecimalValue(SubSeq(s, 1, Len(s) - 1)) + DigitValue(s[Len(s)])

\* int(s): surrounding whitespace is ignored, one sign is allowed, then only
\* digits, at least one; anything else raises ValueError
int(s) ==
    LET t == Strip(s)
        signed == t # <<>> /\ t[1] \in {"+", "-"}
        d == IF signed THEN Tail(t) ELSE t
    IN  IF d # <<>> /\ \A i \in 1..Len(d) : IsDigit(d[i])
        THEN [ok |-> TRUE,
              val |-> IF signed /\ t[1] = "-" THEN -DecimalValue(d) ELSE DecimalValue(d)]
        ELSE [ok |-> FALSE, val |-> 0]

\* a pandas Series: its index and its values, position by position
EmptySeries == [index |-> <<>>, values |-> <<>>]

---------------------------------------------------------------------------
(* parse_duration *)

SecondsPerMinute == 60
SecondsPerHour == 3600

\* timedelta(hours=, minutes=, seconds=), as its total seconds
timedelta(hours, minutes, seconds) ==
    hours * SecondsPerHour + minutes * SecondsPerMinute + seconds

\* what is left of the token after a unit: duration_str.split(marker)[1]
RestAfter(s, marker) == Split(s, marker)[2]

\* a variant: the number is not allowed any surrounding whitespace
UnitValueNoStrip(s, marker) ==
    LET f == Split(s, marker)[1]
    IN  IF f # <<>> /\ \A i \in 1..Len(f) : IsDigit(f[i])
        THEN [ok |-> TRUE, val |-> DecimalValue(f)]
        ELSE [ok |-> FALSE, val |-> 0]

\* the hours/minutes/seconds of one unit: int(duration_str.split(marker)[0])
UnitValue(s, marker) == int(Split(s, marker)[1])

\* parse_duration(duration_str): [ok, val]; ok = FALSE when an int() raised
parse_duration(s) ==
    LET hasH == Contains(s, "h")
        h == IF hasH THEN UnitValue(s, "h") ELSE [ok |-> TRUE, val |-> 0]
        s1 == IF hasH THEN RestAfter(s, "h") ELSE s
        hasM == Contains(s1, "m")
        m == IF hasM THEN UnitValue(s1, "m") ELSE [ok |-> TRUE, val |-> 0]
        s2 == IF hasM THEN RestAfter(s1, "m") ELSE s1
        hasS == Contains(s2, "s")
        sec == IF hasS THEN UnitValue(s2, "s") ELSE [ok |-> TRUE, val |-> 0]
    IN  IF ~h.ok THEN [ok |-> FALSE, val |-> 0]
        ELSE IF ~m.ok THEN [ok |-> FALSE, val |-> 0]
        ELSE IF ~sec.ok THEN [ok |-> FALSE, val |-> 0]
        ELSE [ok |-> TRUE, val |-> timedelta(h.val, m.val, sec.val)]

(* The tokens the parser is run on *)

\* the values a unit is written with
UnitNumbers == {0, 1, 5, 23, 40, 45, 90, 120}

\* a unit is absent, or present with its value
UnitChoices == {[present |-> FALSE, n |-> 0]} \cup [present : {TRUE}, n : UnitNumbers]

Separators == {<<>>, <<" ">>}

\* the decimal digits of n >= 0
RECURSIVE Str(_)
Str(n) == IF n < 10 THEN <<Digits[n + 1]>> ELSE Str(n \div 10) \o <<Digits[(n % 10) + 1]>>

UnitText(u, marker, sep) == IF u.present THEN Str(u.n) \o <<marker>> \o sep ELSE <<>>

\* "<H>h<M>m<S>s" with any unit absent, the units separated by sep
Token(u) == UnitText(u.h, "h", u.sep) \o UnitText(u.m, "m", u.sep) \o UnitText(u.s, "s", <<>>)

WellFormedUnits ==
    [wf : {TRUE}, h : UnitChoices, m : UnitChoices, s : UnitChoices,
     sep : Separators, raw : {<<>>}]

\* tokens outside the format: a marker without a number, text, a sign, units
\* out of order or repeated
MalformedTokens ==
    { <<"h">>, <<"m">>, <<"x", "s">>, <<"1", "h", "m">>, <<"1", ".", "5", "h">>,
      <<"5", "s", "3", "m">>, <<"1", "h", "2", "h", "3", "m">>, <<"-", "5", "m">>,
      <<"1", "0">>, <<"a", "b", "c">> }

NoUnit == [present |-> FALSE, n |-> 0]

RawUnits ==
    [wf : {FALSE}, h : {NoUnit}, m : {NoUnit}, s : {NoUnit}, sep : {<<>>},
     raw : MalformedTokens]

NoUnits == [wf |-> FALSE, h |-> NoUnit, m |-> NoUnit, s |-> NoUnit, sep |-> <<>>, raw |-> <<>>]

InitParse ==
    /\ pc = "parse"
    /\ err = "none"
    /\ units \in WellFormedUnits \cup RawUnits
    /\ duration_str = IF units.wf THEN Token(units) ELSE units.raw
    /\ parsed = 0
    /\ data = <<>> /\ line_no = 1 /\ records = <<>> /\ locals = {}
    /\ study_per_day = EmptySeries /\ study_per_day_hours = EmptySeries
    /\ moving_avg_7d = EmptySeries /\ moving_avg_30d = EmptySeries
    /\ df = <<>> /\ x_months_ago = 0 /\ df_recent = <<>> /\ row = 1
    /\ start_time = 0 /\ end_time = 0 /\ seg_end = 0 /\ cursor = 0
    /\ heat = <<>> /\ heat_avg = <<>>

ParseReturn ==
    /\ pc = "parse"
    /\ parse_duration(duration_str).ok
    /\ parsed' = parse_duration(duration_str).val
    /\ pc' = "returned"
    /\ UNCHANGED <<err, units, duration_str, loadVars, walkVars>>

ParseRaise ==
    /\ pc = "parse"
    /\ ~parse_duration(duration_str).ok
    /\ err' = "ValueError"
    /\ pc' = "raised"
    /\ UNCHANGED <<parsed, units, duration_str, loadVars, walkVars>>

NextParse == ParseReturn \/ ParseRaise

SpecParse == InitParse /\ [][NextParse]_vars

(* C8: for every token written from the units h, m, s in that order, each   *)
(* absent or an unsigned integer followed by its marker, parse_duration    *)
(* raises nothing and returns exactly 3600*H + 60*M + S seconds, an absent *)
(* unit counting as zero.                                                  *)
C8_ParseDuration ==
    units.wf =>
        /\ pc # "raised"
        /\ pc = "returned" =>
              parsed = 3600 * (IF units.h.present THEN units.h.n ELSE 0)
                       + 60 * (IF units.m.present THEN units.m.n ELSE 0)
                       + (IF units.s.present THEN units.s.n ELSE 0)

\* "1h 23m 40s" has been parsed, to 5020 seconds
C8_Witness ==
    /\ pc = "returned"
    /\ duration_str = <<"1", "h", " ", "2", "3", "m", " ", "4", "0", "s">>
    /\ parsed = 5020

---------------------------------------------------------------------------
(* datetime *)

SecondsPerDay == 86400

\* datetime(2024, 1, 1 + day, h, m, sec)
At(day, h, m, sec) == day * SecondsPerDay + h * SecondsPerHour + m * SecondsPerMinute + sec

\* t.date(), as the number of days since 2024-01-01
date(t) == t \div SecondsPerDay

\* datetime.strptime(text, "%y-%m-%d %H:%M:%S") for the timestamps of the
\* input; a timestamp is one element of a line
StrptimeTable ==
    "24-01-01 10:00:00" :> At(0, 10, 0, 0) @@
    "24-01-01 11:00:00" :> At(0, 11, 0, 0) @@
    "24-01-01 23:30:00" :> At(0, 23, 30, 0) @@
    "24-01-02 00:30:00" :> At(1, 0, 30, 0) @@
    "24-01-03 09:00:00" :> At(2, 9, 0, 0) @@
    "24-01-08 09:00:00" :> At(7, 9, 0, 0) @@
    "24-02-01 09:00:00" :> At(31, 9, 0, 0) @@
    "24-02-05 09:00:00" :> At(35, 9, 0, 0)

\* any other text raises ValueError
strptime(text) ==
    IF Len(text) = 1 /\ text[1] \in DOMAIN StrptimeTable
    THEN [ok |-> TRUE, val |-> StrptimeTable[text[1]]]
    ELSE [ok |-> FALSE, val |-> 0]

---------------------------------------------------------------------------
(* The loader: lines 25-42 *)

\* a variant of the structural check: the field count alone
AcceptedByCount(parts) == Len(parts) = 4

\* len(parts) == 4 and parts[1] and parts[2]
Accepted(parts) == Len(parts) = 4 /\ parts[2] # <<>> /\ parts[3] # <<>>

\* a variant: the date of a record is taken from its end
RecordOfEndDate(start, end, duration) ==
    [Date |-> date(end), StartTime |-> start, EndTime |-> end, Duration |-> duration]

\* the record appended at lines 35-40
RecordOf(start, end, duration) ==
    [Date |-> date(start), StartTime |-> start, EndTime |-> end, Duration |-> duration]

\* lines 32-34 on the parts of an accepted line: ok = FALSE when one of the
\* three conversions raised
ParseRow(parts) ==
    LET st == strptime(parts[2])
        en == strptime(parts[3])
        du == parse_duration(parts[4])
    IN  [ok |-> st.ok /\ en.ok /\ du.ok, rec |-> RecordOf(st.val, en.val, du.val)]

\* line.strip().split(",")
Parts(line) == Split(Strip(line), ",")

\* a variant: a row whose conversion fails is dropped
RowOutcomeDropBad(line) ==
    IF ~Accepted(Parts(line)) THEN "skip"
    ELSE IF ParseRow(Parts(line)).ok THEN "append"
    ELSE "skip"

\* what one iteration of the for loop does with a line
RowOutcome(line) ==
    IF ~Accepted(Parts(line)) THEN "skip"
    ELSE IF ParseRow(Parts(line)).ok THEN "append"
    ELSE "raise"

(* The lines of the input *)

Line(id, start, end, duration, eol) ==
    id \o <<",">> \o start \o <<",">> \o end \o <<",">> \o duration \o eol

Lines ==
    { \* well-formed rows
      Line(<<"1">>, <<"24-01-01 10:00:00">>, <<"24-01-01 11:00:00">>, <<"1", "h">>, <<"\n">>),
      Line(<<"2">>, <<"24-01-01 23:30:00">>, <<"24-01-02 00:30:00">>,
           <<"1", "h", " ", "0", "m", " ", "0", "s">>, <<"\n">>),
      Line(<<"3">>, <<"24-01-03 09:00:00">>, <<"24-01-03 09:00:00">>, <<"4", "5", "m">>, <<>>),
      Line(<<"4">>, <<"24-01-08 09:00:00">>, <<"24-01-08 09:00:00">>, <<"3", "0", "s">>, <<"\n">>),
      Line(<<"5">>, <<"24-02-01 09:00:00">>, <<"24-02-05 09:00:00">>, <<"2", "h">>, <<"\n">>),
      Line(<<>>, <<"24-02-05 09:00:00">>, <<"24-02-05 09:00:00">>, <<>>, <<" ", "\n">>),
      \* rows the structural check rejects
      <<"\n">>,
      <<"i", "d", ",", "24-01-01 10:00:00", ",", "24-01-01 11:00:00", "\n">>,
      Line(<<"7">>, <<"24-01-01 10:00:00">>, <<"24-01-01 11:00:00">>, <<"1", "h", ",", "x">>, <<"\n">>),
      Line(<<"8">>, <<>>, <<"24-01-01 11:00:00">>, <<"1", "h">>, <<"\n">>),
      Line(<<"9">>, <<"24-01-01 10:00:00">>, <<>>, <<"1", "h">>, <<"\n">>),
      \* rows that pass it and do not convert
      Line(<<"1", "0">>, <<"2", "0", "2", "4">>, <<"24-01-01 11:00:00">>, <<"1", "h">>, <<"\n">>),
      Line(<<"1", "1">>, <<"24-01-01 10:00:00">>, <<" ">>, <<"1", "h">>, <<"\n">>),
      Line(<<"1", "2">>, <<"24-01-01 10:00:00">>, <<"24-01-01 11:00:00">>, <<"x", "s">>, <<"\n">>) }

MaxLines == 3

RECURSIVE SeqsUpTo(_, _)
SeqsUpTo(S, n) ==
    IF n = 0 THEN {<<>>}
    ELSE LET shorter == SeqsUpTo(S, n - 1)
         IN  shorter \cup {Append(q, x) : q \in {r \in shorter : Len(r) = n - 1}, x \in S}

Init ==
    /\ pc = "load"
    /\ err = "none"
    /\ units = NoUnits /\ duration_str = <<>> /\ parsed = 0
    /\ data \in SeqsUpTo(Lines, MaxLines)
    /\ line_no = 1 /\ records = <<>> /\ locals = {}
    /\ study_per_day = EmptySeries /\ study_per_day_hours = EmptySeries
    /\ moving_avg_7d = EmptySeries /\ moving_avg_30d = EmptySeries
    /\ df = <<>> /\ x_months_ago = 0 /\ df_recent = <<>> /\ row = 1
    /\ start_time = 0 /\ end_time = 0 /\ seg_end = 0 /\ cursor = 0
    /\ heat = <<>> /\ heat_avg = <<>>

seriesVars == <<locals, study_per_day, study_per_day_hours, moving_avg_7d, moving_avg_30d>>

\* line 31 is false: the line is passed over
LoadSkip ==
    /\ pc = "load"
    /\ line_no <= Len(data)
    /\ RowOutcome(data[line_no]) = "skip"
    /\ line_no' = line_no + 1
    /\ UNCHANGED <<pc, err, data, records, seriesVars, parseVars, walkVars>>

\* lines 32-40
LoadAppend ==
    /\ pc = "load"
    /\ line_no <= Len(data)
    /\ RowOutcome(data[line_no]) = "append"
    /\ records' = Append(records, ParseRow(Parts(data[line_no])).rec)
    /\ line_no' = line_no + 1
    /\ UNCHANGED <<pc, err, data, seriesVars, parseVars, walkVars>>

\* strptime or int raises at lines 32-34: the exception leaves the function
LoadRaise ==
    /\ pc = "load"
    /\ line_no <= Len(data)
    /\ RowOutcome(data[line_no]) = "raise"
    /\ err' = "ValueError"
    /\ pc' = "raised"
    /\ UNCHANGED <<data, line_no, records, seriesVars, parseVars, walkVars>>

\* line 42: df = pd.DataFrame(records)
LoadEnd ==
    /\ pc = "load"
    /\ line_no > Len(data)
    /\ locals' = locals \cup {"df"}
    /\ pc' = "fill"
    /\ UNCHANGED <<err, data, line_no, records, study_per_day, study_per_day_hours,
                   moving_avg_7d, moving_avg_30d, parseVars, walkVars>>

---------------------------------------------------------------------------
(* The daily series and its rolling means: lines 44-55 *)

Min(S) == CHOOSE x \in S : \A y \in S : x <= y
Max(S) == CHOOSE x \in S : \A y \in S : x >= y

RECURSIVE Sorted(_)
Sorted(S) == IF S = {} THEN <<>> ELSE <<Min(S)>> \o Sorted(S \ {Min(S)})

\* the Duration of the records of one Date, added up in row order
RECURSIVE SumOfGroup(_, _)
SumOfGroup(recs, d) ==
    IF recs = <<>> THEN 0
    ELSE (IF Head(recs).Date = d THEN Head(recs).Duration ELSE 0) + SumOfGroup(Tail(recs), d)

\* df.groupby("Date")["Duration"].sum(): one entry per Date that occurs, in
\* ascending order
groupby_sum(recs) ==
    LET keys == Sorted({recs[i].Date : i \in 1..Len(recs)})
    IN  [index |-> keys, values |-> [k \in 1..Len(keys) |-> SumOfGroup(recs, keys[k])]]

\* pd.date_range(start=, end=): every day from start to end, both included
date_range(start, end) == [k \in 1..(end - start + 1) |-> start + (k - 1)]

\* series.reindex(new_index, fill_value=)
reindex(series, new_index, fill_value) ==
    [index |-> new_index,
     values |-> [k \in 1..Len(new_index) |->
        IF \E j \in 1..Len(series.index) : series.index[j] = new_index[k]
        THEN series.values[CHOOSE j \in 1..Len(series.index) : series.index[j] = new_index[k]]
        ELSE fill_value]]

\* lines 46-48
FilledSeries(recs) ==
    LET dates == {recs[i].Date : i \in 1..Len(recs)}
        all_dates == date_range(Min(dates), Max(dates))
    IN  reindex(groupby_sum(recs), all_dates, 0)

NaN == [num |-> 0, den |-> 0]

\* x.total_seconds() / 3600
Hours(x) == [num |-> x, den |-> SecondsPerHour]

\* the sum of the window ending at position i, kept as pandas keeps it: each
\* value is added as it enters the window and taken out as it leaves
RECURSIVE WindowSum(_, _, _)
WindowSum(values, window, i) ==
    IF i = 0 THEN 0
    ELSE WindowSum(values, window, i - 1) + values[i].num
         - (IF i > window THEN values[i - window].num ELSE 0)

\* the number of observations in the window ending at position i
WindowCount(window, i) == IF i < window THEN i ELSE window

\* a variant: one observation is enough for a mean
MinPeriodsOne(window) == 1

\* rolling(window=): min_periods is left to its default, the window
MinPeriods(window) == window

\* series.rolling(window=window).mean()
rolling_mean(series, window) ==
    [index |-> series.index,
     values |-> [i \in 1..Len(series.values) |->
        IF WindowCount(window, i) >= MinPeriods(window)
        THEN [num |-> WindowSum(series.values, window, i),
              den |-> SecondsPerHour * WindowCount(window, i)]
        ELSE NaN]]

ShortWindow == 7
LongWindow == 30

\* lines 45-48 with a non-empty frame
FillMissingDates ==
    /\ pc = "fill"
    /\ records # <<>>
    /\ study_per_day' = FilledSeries(records)
    /\ locals' = locals \cup {"all_dates", "study_per_day"}
    /\ pc' = "hours"
    /\ UNCHANGED <<err, data, line_no, records, study_per_day_hours,
                   moving_avg_7d, moving_avg_30d, parseVars, walkVars>>

\* line 45 with an empty frame: the body is not run, nothing is bound
EmptyFrame ==
    /\ pc = "fill"
    /\ records = <<>>
    /\ pc' = "hours"
    /\ UNCHANGED <<err, data, line_no, records, seriesVars, parseVars, walkVars>>

\* line 51
ConvertToHours ==
    /\ pc = "hours"
    /\ "study_per_day" \in locals
    /\ study_per_day_hours' =
         [index |-> study_per_day.index,
          values |-> [k \in 1..Len(study_per_day.values) |-> Hours(study_per_day.values[k])]]
    /\ locals' = locals \cup {"study_per_day_hours"}
    /\ pc' = "rolling"
    /\ UNCHANGED <<err, data, line_no, records, study_per_day,
                   moving_avg_7d, moving_avg_30d, parseVars, walkVars>>

\* line 51 reads study_per_day, which line 47 never bound
ConvertUnbound ==
    /\ pc = "hours"
    /\ "study_per_day" \notin locals
    /\ err' = "UnboundLocalError"
    /\ pc' = "raised"
    /\ UNCHANGED <<data, line_no, records, seriesVars, parseVars, walkVars>>

\* lines 54-55
MovingAverages ==
    /\ pc = "rolling"
    /\ moving_avg_7d' = rolling_mean(study_per_day_hours, ShortWindow)
    /\ moving_avg_30d' = rolling_mean(study_per_day_hours, LongWindow)
    /\ locals' = locals \cup {"moving_avg_7d", "moving_avg_30d"}
    /\ pc' = "smoothed"
    /\ UNCHANGED <<err, data, line_no, records, study_per_day, study_per_day_hours,
                   parseVars, walkVars>>

Next ==
    \/ LoadSkip
    \/ LoadAppend
    \/ LoadRaise
    \/ LoadEnd
    \/ FillMissingDates
    \/ EmptyFrame
    \/ ConvertToHours
    \/ ConvertUnbound
    \/ MovingAverages

Spec == Init /\ [][Next]_vars

---------------------------------------------------------------------------
(* Properties of the loader and of the daily series *)

RECURSIVE SeqSum(_)
SeqSum(q) == IF q = <<>> THEN 0 ELSE Head(q) + SeqSum(Tail(q))

\* the places of the commas of a line, in order
Commas(line) == Sorted({i \in 1..Len(line) : line[i] = ","})

\* exactly three commas, with something between the first and the second and
\* between the second and the third
Structural(line) ==
    LET c == Commas(line)
    IN  Len(c) = 3 /\ c[2] - c[1] > 1 /\ c[3] - c[2] > 1

StartField(line) == SubSeq(line, Commas(line)[1] + 1, Commas(line)[2] - 1)
EndField(line) == SubSeq(line, Commas(line)[2] + 1, Commas(line)[3] - 1)
DurationField(line) == Strip(SubSeq(line, Commas(line)[3] + 1, Len(line)))

IsTimestamp(field) == Len(field) = 1 /\ field[1] \in DOMAIN StrptimeTable

\* the structurally accepted lines among those the loop has gone past
AcceptedSoFar == {j \in 1..Len(data) : j < line_no /\ Structural(data[j])}

(* C7: a line becomes a record exactly when it has 4 comma-separated fields *)
(* with non-empty start and end; every other line is passed over, raising  *)
(* nothing and leaving the records as they are, wherever it stands.        *)
C7_StructuralFilter ==
    /\ Len(records) = Cardinality(AcceptedSoFar)
    /\ \A k \in 1..Len(records) :
         LET f == StartField(data[Sorted(AcceptedSoFar)[k]])
         IN  IsTimestamp(f) /\ records[k].StartTime = StrptimeTable[f[1]]
    /\ err = "ValueError" => Structural(data[line_no])

\* a rejected line stood between two rows that became records
C7_Witness ==
    /\ err = "none"
    /\ line_no = 4
    /\ ~Structural(data[2])
    /\ Len(records) = 2

BadTimestamp(line) ==
    Structural(line) /\ ~(IsTimestamp(StartField(line)) /\ IsTimestamp(EndField(line)))

(* C9: a line that passes the structural check and whose start or end is   *)
(* no timestamp is never passed over: the run ends at that line with the   *)
(* conversion's error, and no series is made from the lines after it.      *)
C9_MalformedTimestampFatal ==
    /\ \A j \in 1..Len(data) : j < line_no => ~BadTimestamp(data[j])
    /\ (pc # "load" /\ line_no <= Len(data) /\ BadTimestamp(data[line_no])) =>
          /\ pc = "raised"
          /\ err = "ValueError"
          /\ Len(records) < line_no
          /\ locals = {}
          /\ study_per_day = EmptySeries /\ study_per_day_hours = EmptySeries
          /\ moving_avg_7d = EmptySeries /\ moving_avg_30d = EmptySeries

\* the run has ended at a malformed timestamp with a record before it and
\* lines after it
C9_Witness ==
    /\ pc = "raised"
    /\ line_no < Len(data)
    /\ BadTimestamp(data[line_no])
    /\ records # <<>>

(* C4: when no line is accepted (no line at all, or none passing the       *)
(* structural check) the run raises nothing.                               *)
C4_EmptyInputDegrades ==
    (\A j \in 1..Len(data) : ~Structural(data[j])) => err = "none"

StartDay(line) == StrptimeTable[StartField(line)[1]] \div 86400

\* the accepted lines: for each its start day and its parsed duration token
AcceptedRows ==
    LET acc == Sorted({j \in 1..Len(data) : Structural(data[j])})
    IN  [k \in 1..Len(acc) |->
            [day |-> StartDay(data[acc[k]]),
             duration |-> parse_duration(DurationField(data[acc[k]])).val]]

\* the durations of the rows starting on day d, added up
DayTotal(rows, d) ==
    SeqSum([k \in 1..Len(rows) |-> IF rows[k].day = d THEN rows[k].duration ELSE 0])

(* C5: the index of the daily series is exactly the days from the first to *)
(* the last start date, in order, and the value of a day is the sum of the *)
(* parsed duration tokens of the lines whose start falls on it (0 if none);*)
(* the end timestamp has no part in it.                                    *)
C5_DailySeries ==
    "study_per_day" \in locals =>
        LET rows == AcceptedRows
            days == {rows[k].day : k \in 1..Len(rows)}
            lo == Min(days)
            hi == Max(days)
            s == study_per_day
            total == [d \in lo..hi |-> DayTotal(rows, d)]
        IN  /\ Len(s.index) = hi - lo + 1
            /\ Len(s.values) = Len(s.index)
            /\ \A k \in 1..Len(s.index) :
                 /\ s.index[k] = lo + (k - 1)
                 /\ s.values[k] = total[s.index[k]]
            /\ "study_per_day_hours" \in locals =>
                 /\ study_per_day_hours.index = s.index
                 /\ \A k \in 1..Len(s.index) :
                      study_per_day_hours.values[k] = [num |-> total[s.index[k]], den |-> 3600]

\* a series with a day of two sessions, a day of none and a session ending
\* on another day than it starts
C5_Witness ==
    /\ "study_per_day" \in locals
    /\ \E k \in 1..Len(study_per_day.values) : study_per_day.values[k] = 0
    /\ \E i, j \in 1..Len(records) : i # j /\ records[i].Date = records[j].Date
    /\ \E i \in 1..Len(records) : date(records[i].EndTime) # records[i].Date

\* position i of ma is the mean of the w daily values ending at i
\* (in hours: the seconds of the window over 3600 * w)
IsWindowMean(ma, w, i) ==
    /\ i >= w
    /\ ma.values[i].num = SeqSum(SubSeq(study_per_day.values, i - w + 1, i))
    /\ ma.values[i].den = 3600 * w

\* the positions of ma that hold no value
Missing(ma) == {i \in 1..Len(ma.values) : ma.values[i] = NaN}

(* C6, as amended: of a daily series of length N the first min(N, W-1)     *)
(* positions of the rolling mean hold no value, and every other position i *)
(* holds the mean of the W daily values at i-W+1 .. i (W = 7 and W = 30).  *)
C6_RollingMeans ==
    pc = "smoothed" =>
        \A p \in {<<moving_avg_7d, 7>>, <<moving_avg_30d, 30>>} :
            LET ma == p[1]
                w == p[2]
                n == Len(study_per_day.values)
            IN  /\ ma.index = study_per_day.index
                /\ Len(ma.values) = n
                /\ Missing(ma) = 1..(IF n < w - 1 THEN n ELSE w - 1)
                /\ \A i \in (1..n) \ Missing(ma) : IsWindowMean(ma, w, i)

\* a series long enough for the 30-day mean to have a value
C6_Witness ==
    /\ pc = "smoothed"
    /\ Len(moving_avg_30d.values) > 30
    /\ moving_avg_30d.values[30].num > 0
    /\ moving_avg_7d.values[7].num > 0

(* C6, as stated: exactly W-1 leading positions hold no value, whatever    *)
(* the length N of the series, and every other position holds the mean.    *)
C6_ExactlyWMinusOne ==
    pc = "smoothed" =>
        \A p \in {<<moving_avg_7d, 7>>, <<moving_avg_30d, 30>>} :
            /\ Missing(p[1]) = 1..(p[2] - 1)
            /\ \A i \in (1..Len(p[1].values)) \ Missing(p[1]) : IsWindowMean(p[1], p[2], i)

---------------------------------------------------------------------------
(* The density walk: lines 93-133 *)

MinutesPerHour == 60
BinMinutes == 30
bins == 48
DaysPerWeek == 7
x_months == 4

\* cursor.weekday(): 0 = Monday; 2024-01-01 is a Monday
weekday(t) == date(t) % DaysPerWeek

hour(t) == (t % SecondsPerDay) \div SecondsPerHour
minute(t) == ((t % SecondsPerDay) % SecondsPerHour) \div SecondsPerMinute

\* line 117-118
bin_idx(t) == (hour(t) * MinutesPerHour + minute(t)) \div BinMinutes

\* line 111: 23:59:59 of the day of t
day_end(t) == At(date(t), 23, 59, 59)

\* line 112
seg_end_of(start, end) == IF end <= day_end(start) THEN end ELSE day_end(start)

\* a variant: the next segment starts at the end of this one
NextSegmentStartSame(segment_end) == segment_end

\* line 122
NextSegmentStart(segment_end) == segment_end + 1

\* line 120
NextCursor(c) == c + SecondsPerMinute

\* the months of 2024, the year the timestamps of the model are in
MonthDays == <<31, 29, 31, 30, 31, 30, 31, 31, 30, 31, 30, 31>>

MonthStart(m) == SeqSum(SubSeq(MonthDays, 1, m - 1))

MonthOf(d) == CHOOSE m \in 1..12 : MonthStart(m) <= d /\ d < MonthStart(m) + MonthDays[m]

\* t - pd.DateOffset(months=k): the same day of the month k months earlier,
\* or the last day of that month when it is shorter; the time of day is kept
MonthsBefore(t, k) ==
    LET m == MonthOf(date(t))
        dom == date(t) - MonthStart(m) + 1
        m2 == m - k
        dom2 == IF dom <= MonthDays[m2] THEN dom ELSE MonthDays[m2]
    IN  At(MonthStart(m2) + dom2 - 1, 0, 0, 0) + (t % SecondsPerDay)

\* pd.DataFrame(0, index=range(7), columns=range(bins))
ZeroHeat == [w \in 0..(DaysPerWeek - 1) |-> [b \in 0..(bins - 1) |-> 0]]

(* The sessions the walk is run on, as <<start, end>> *)

ShortSessions ==
    { <<At(0, 23, 45, 0), At(1, 0, 15, 0)>>,     \* over one midnight
      <<At(0, 23, 45, 30), At(1, 0, 15, 0)>>,    \* the same, starting at second 30
      <<At(1, 23, 50, 0), At(2, 0, 0, 0)>>,      \* ending at 00:00:00
      <<At(2, 10, 0, 0), At(2, 10, 0, 0)>>,      \* start = end
      <<At(2, 10, 0, 0), At(2, 10, 29, 59)>>,    \* within one bin
      <<At(3, 9, 59, 30), At(3, 10, 31, 0)>>,    \* over three bins, starting at second 30
      <<At(3, 11, 0, 0), At(3, 10, 0, 0)>> }     \* end before start

LongSessions ==
    { <<At(5, 23, 58, 0), At(7, 0, 1, 0)>>,      \* over two midnights, into Monday
      <<At(5, 23, 59, 30), At(7, 0, 0, 0)>> }    \* over two midnights, ending at 00:00:00

\* datetime.now(): May 1st 12:00 and May 2nd 00:00 put the cutoff in the
\* first two days of the sessions, August 31st puts it after all of them
Todays == {At(121, 12, 0, 0), At(122, 0, 0, 0), At(243, 8, 0, 0)}

MaxSessions == 2

SessionRow(p) == RecordOf(p[1], p[2], p[2] - p[1])

Frames ==
    LET rows(q) == [i \in 1..Len(q) |-> SessionRow(q[i])]
    IN  {rows(q) : q \in SeqsUpTo(ShortSessions, MaxSessions)}
        \cup {rows(<<l>>) : l \in LongSessions}

InitWalk ==
    /\ pc = "filter"
    /\ err = "none"
    /\ units = NoUnits /\ duration_str = <<>> /\ parsed = 0
    /\ data = <<>> /\ line_no = 1 /\ records = <<>> /\ locals = {}
    /\ study_per_day = EmptySeries /\ study_per_day_hours = EmptySeries
    /\ moving_avg_7d = EmptySeries /\ moving_avg_30d = EmptySeries
    /\ df \in Frames
    /\ \E today \in Todays : x_months_ago = MonthsBefore(today, x_months)
    /\ df_recent = <<>> /\ row = 1
    /\ start_time = 0 /\ end_time = 0 /\ seg_end = 0 /\ cursor = 0
    /\ heat = ZeroHeat /\ heat_avg = <<>>

\* lines 96-103
Filter ==
    /\ pc = "filter"
    /\ df_recent' = SelectSeq(df, LAMBDA r : r.StartTime >= x_months_ago)
    /\ heat' = ZeroHeat
    /\ row' = 1
    /\ pc' = "rows"
    /\ UNCHANGED <<err, df, x_months_ago, start_time, end_time, seg_end, cursor,
                   heat_avg, parseVars, loadVars>>

\* lines 106-107: the next row of df_recent
NextRow ==
    /\ pc = "rows"
    /\ row <= Len(df_recent)
    /\ start_time' = df_recent[row].StartTime
    /\ end_time' = df_recent[row].EndTime
    /\ pc' = "outer"
    /\ UNCHANGED <<err, df, x_months_ago, df_recent, row, seg_end, cursor, heat,
                   heat_avg, parseVars, loadVars>>

\* line 109 holds; lines 111-114
EnterSegment ==
    /\ pc = "outer"
    /\ start_time < end_time
    /\ seg_end' = seg_end_of(start_time, end_time)
    /\ cursor' = start_time
    /\ pc' = "inner"
    /\ UNCHANGED <<err, df, x_months_ago, df_recent, row, start_time, end_time, heat,
                   heat_avg, parseVars, loadVars>>

\* line 109 fails: the row is done
LeaveRow ==
    /\ pc = "outer"
    /\ ~(start_time < end_time)
    /\ row' = row + 1
    /\ pc' = "rows"
    /\ UNCHANGED <<err, df, x_months_ago, df_recent, start_time, end_time, seg_end,
                   cursor, heat, heat_avg, parseVars, loadVars>>

\* line 115 holds; lines 116-120
VisitMinute ==
    /\ pc = "inner"
    /\ cursor <= seg_end
    /\ heat' = [heat EXCEPT ![weekday(cursor)][bin_idx(cursor)] = @ + 1]
    /\ cursor' = NextCursor(cursor)
    /\ UNCHANGED <<pc, err, df, x_months_ago, df_recent, row, start_time, end_time,
                   seg_end, heat_avg, parseVars, loadVars>>

\* line 115 fails; line 122
EndSegment ==
    /\ pc = "inner"
    /\ ~(cursor <= seg_end)
    /\ start_time' = NextSegmentStart(seg_end)
    /\ pc' = "outer"
    /\ UNCHANGED <<err, df, x_months_ago, df_recent, row, end_time, seg_end, cursor,
                   heat, heat_avg, parseVars, loadVars>>

\* the rows are exhausted
RowsDone ==
    /\ pc = "rows"
    /\ row > Len(df_recent)
    /\ pc' = "accumulated"
    /\ UNCHANGED <<err, walkVars, parseVars, loadVars>>

\* (max - min).days of the start times; of no row it is NaT, which has none
SpanDays(rows) ==
    LET starts == {rows[i].StartTime : i \in 1..Len(rows)}
    IN  IF starts = {} THEN NaN
        ELSE [num |-> (Max(starts) - Min(starts)) \div SecondsPerDay, den |-> 1]

\* lines 125-133: counts to hours, over the weeks when there are any, back
\* to minutes
Normalized(count, span) ==
    LET inHours == [num |-> count, den |-> MinutesPerHour]
        weeks == [num |-> span.num, den |-> span.den * DaysPerWeek]
        perWeek == IF weeks.den # 0 /\ weeks.num > 0
                   THEN [num |-> inHours.num * weeks.den, den |-> inHours.den * weeks.num]
                   ELSE inHours
    IN  [num |-> perWeek.num * MinutesPerHour, den |-> perWeek.den]

Normalize ==
    /\ pc = "accumulated"
    /\ heat_avg' = [w \in DOMAIN heat |->
                      [b \in DOMAIN heat[w] |-> Normalized(heat[w][b], SpanDays(df_recent))]]
    /\ pc' = "done"
    /\ UNCHANGED <<err, df, x_months_ago, df_recent, row, start_time, end_time,
                   seg_end, cursor, heat, parseVars, loadVars>>

NextWalk ==
    \/ Filter
    \/ NextRow
    \/ EnterSegment
    \/ LeaveRow
    \/ VisitMinute
    \/ EndSegment
    \/ RowsDone
    \/ Normalize

SpecWalk == InitWalk /\ [][NextWalk]_vars

\* the script runs on: every step that can be taken is taken
SpecWalkFair == SpecWalk /\ WF_vars(NextWalk)

---------------------------------------------------------------------------
(* Properties of the density walk *)

RowTotal(r) == SeqSum([b \in 1..Cardinality(DOMAIN r) |-> r[b - 1]])

\* the sum of all cells of a count matrix
HeatTotal(h) == SeqSum([w \in 1..Cardinality(DOMAIN h) |-> RowTotal(h[w - 1])])

\* floor((end - start) in minutes) + 1
InclusiveMinutes(r) == ((r.EndTime - r.StartTime) \div 60) + 1

(* C1: when every filtered session has start <= end, the cells of the      *)
(* matrix after the accumulation, before the normalization, add up to the  *)
(* sum over the sessions of floor((end - start) in minutes) + 1.           *)
C1_Conservation ==
    (pc = "accumulated" /\ \A i \in 1..Len(df_recent) :
                              df_recent[i].StartTime <= df_recent[i].EndTime)
    => HeatTotal(heat) = SeqSum([i \in 1..Len(df_recent) |-> InclusiveMinutes(df_recent[i])])

(* C2: a filtered session with start = end adds exactly 1 to exactly one   *)
(* cell, that of its start's weekday and half-hour bin: after a walk over  *)
(* such sessions only, every cell holds the number of them that start in   *)
(* it.                                                                     *)
C2_ZeroLengthSession ==
    (pc = "accumulated" /\ df_recent # <<>>
        /\ \A i \in 1..Len(df_recent) : df_recent[i].StartTime = df_recent[i].EndTime)
    => \A w \in DOMAIN heat : \A b \in DOMAIN heat[w] :
          heat[w][b] = Cardinality({i \in 1..Len(df_recent) :
                                      /\ weekday(df_recent[i].StartTime) = w
                                      /\ bin_idx(df_recent[i].StartTime) = b})

(* C3: a filtered session whose interval holds the 00:00:00 of a later day *)
(* adds at least one minute to the weekday row of its start date and at    *)
(* least one to bin 0 of the weekday row of every following day up to and  *)
(* including its end date.                                                 *)
C3_MidnightSplit ==
    pc = "accumulated" =>
        \A i \in 1..Len(df_recent) :
            LET r == df_recent[i]
            IN  (r.StartTime <= r.EndTime /\ date(r.EndTime) > date(r.StartTime)) =>
                    /\ RowTotal(heat[weekday(r.StartTime)]) >= 1
                    /\ \A d \in (date(r.StartTime) + 1)..date(r.EndTime) :
                          heat[d % 7][0] >= 1

\* a minute of the current segment is about to be counted
Visiting == pc = "inner" /\ cursor <= seg_end

(* C10: the walk of every session ends.  Every minute counted lies in the  *)
(* calendar day of its segment's start and the cursor moves forward; the   *)
(* start of the next segment is later than that of this one, and when the  *)
(* outer loop goes on it is the 00:00:00 of the next day, so there is at   *)
(* most one segment per day the session touches; and the walk reaches its  *)
(* end.                                                                    *)
C10_WalkTerminates ==
    /\ [](Visiting => /\ date(cursor) = date(start_time)
                      /\ start_time <= cursor
                      /\ seg_end <= end_time)
    /\ [][(pc = "inner" /\ pc' = "inner") => cursor' > cursor]_vars
    /\ [][(pc = "inner" /\ pc' = "outer") =>
            /\ start_time' > start_time
            /\ start_time' < end_time =>
                 /\ start_time' = (date(start_time) + 1) * 86400
                 /\ date(start_time') <= date(end_time)]_vars
    /\ <>(pc = "done")

\* the walk has ended after a session over two midnights
C10_Witness ==
    /\ pc = "done"
    /\ \E i \in 1..Len(df_recent) : date(df_recent[i].EndTime) > date(df_recent[i].StartTime) + 1
    /\ HeatTotal(heat) > 1440

=============================================================================
